---- MODULE Spec2Model ----
(***************************************************************************)
(* Model of generate_api_list.py: the canonicalizer (CanonicalizeSnapshot) *)
(* and the flattener (ProtobufToCanonicalList) of the Blink API snapshot.  *)
(*                                                                         *)
(* Representation.  A Python str is a finite sequence of code points       *)
(* (<<65, 48>> is "A0"), compared lexicographically as Python compares     *)
(* str.  A protobuf message is a record; a repeated field is a sequence.   *)
(* A row (a Python dict) is a function whose DOMAIN is the set of keys     *)
(* present.  Values from closed vocabularies (entity_type, the enum        *)
(* names, the literals 'True', '(True)', 'Direct') are TLA+ strings.       *)
(***************************************************************************)
EXTENDS Integers, Sequences, FiniteSets, TLC

VARIABLES input, snapshot, rows, pc, ncanon

vars == <<input, snapshot, rows, pc, ncanon>>

\* Bounds of the model.
MaxEntities == 4
MaxCanon == 2

-----------------------------------------------------------------------------
(* Python str                                                              *)

Min(a, b) == IF a <= b THEN a ELSE b

\* a < b for Python str: the first differing code point decides, and a
\* proper prefix is smaller.
StrLess(a, b) ==
    \E i \in 1..(Min(Len(a), Len(b)) + 1) :
        /\ \A k \in 1..(i - 1) : a[k] = b[k]
        /\ i <= Len(b)
        /\ (i > Len(a) \/ a[i] < b[i])

StrLeq(a, b) == a = b \/ StrLess(a, b)

RECURSIVE DecStr(_)
\* str(n) for an int n > 0: the decimal digits, most significant first.
DecStr(n) ==
    IF n < 10 THEN <<48 + n>> ELSE DecStr(n \div 10) \o <<48 + (n % 10)>>

RECURSIVE Join(_, _)
\* sep.join(parts) for a list of str.
Join(sep, parts) ==
    IF Len(parts) = 0 THEN <<>>
    ELSE IF Len(parts) = 1 THEN parts[1]
    ELSE parts[1] \o sep \o Join(sep, Tail(parts))

-----------------------------------------------------------------------------
(* list.sort(key=...) and sorted(..., key=...)                             *)

\* A variant that places equal keys in reverse input order.
ReversedTiesSort(v, key) ==
    LET n == Len(v)
        Before(j, i) == StrLess(key[j], key[i]) \/ (key[j] = key[i] /\ j > i)
        rank(i) == Cardinality({j \in 1..n : Before(j, i)}) + 1
    IN  [p \in 1..n |-> v[CHOOSE i \in 1..n : rank(i) = p]]

\* A variant that sorts in descending key order.
DescendingSort(v, key) ==
    LET n == Len(v)
        Before(j, i) == StrLess(key[i], key[j]) \/ (key[j] = key[i] /\ j < i)
        rank(i) == Cardinality({j \in 1..n : Before(j, i)}) + 1
    IN  [p \in 1..n |-> v[CHOOSE i \in 1..n : rank(i) = p]]

\* Python's sort is stable: v[i] lands after every element with a smaller
\* key and after every earlier element with an equal key.  key[i] is the
\* sort key of v[i].
StableSort(v, key) ==
    LET n == Len(v)
        Before(j, i) == StrLess(key[j], key[i]) \/ (key[j] = key[i] /\ j < i)
        rank(i) == Cardinality({j \in 1..n : Before(j, i)}) + 1
    IN  [p \in 1..n |-> v[CHOOSE i \in 1..n : rank(i) = p]]

-----------------------------------------------------------------------------
(* blink_apis_pb2: the message schema                                      *)

\* Fields with label LABEL_REPEATED whose elements are messages.
RepeatedMessageFields ==
    {"interfaces", "attributes", "operations", "constants", "arguments",
     "enumerations", "types"}

\* Fields with label LABEL_REPEATED whose elements are scalars (str).
RepeatedScalarFields == {"values"}

RepeatedFields == RepeatedMessageFields \cup RepeatedScalarFields

\* The fields of every message type, in field-number order within a type.
FieldOrder ==
    <<"chromium_revision", "name", "secure_context", "high_entropy",
      "use_counter", "filename", "line", "extended_attributes", "idl_type",
      "return_type", "source_location", "idl_type_string", "interfaces",
      "attributes", "operations", "constants", "arguments", "enumerations",
      "values", "types">>

\* Singular fields that hold a message.
SingularMessageFields ==
    {"extended_attributes", "idl_type", "return_type", "source_location"}

\* The value a field has when it is not set: '' for a str, the empty list
\* for a repeated field, False, the first enum value and 0 for the others.
DefaultValue(fd) ==
    IF fd = "secure_context" THEN FALSE
    ELSE IF fd = "high_entropy" THEN "HIGH_ENTROPY_NONE"
    ELSE IF fd = "line" THEN 0
    ELSE <<>>

IDLType(str) == [idl_type_string |-> str]

ExtendedAttributes(secure, entropy, counter) ==
    [secure_context |-> secure, high_entropy |-> entropy,
     use_counter |-> counter]

SourceLocation(filename, line) == [filename |-> filename, line |-> line]

\* The default values of an unset ExtendedAttributes and SourceLocation.
NoExts == ExtendedAttributes(FALSE, "HIGH_ENTROPY_NONE", <<>>)
NoLocation == SourceLocation(<<>>, 0)

\* What reading a singular message field that is not set yields: the default
\* instance of its type.
DefaultMessage(fd) ==
    IF fd = "extended_attributes" THEN NoExts
    ELSE IF fd = "source_location" THEN NoLocation
    ELSE IDLType(<<>>)

\* message.fd for a singular message field.  A record holds such a field
\* exactly when it is set.
Sub(message, fd) ==
    IF fd \in DOMAIN message THEN message[fd] ELSE DefaultMessage(fd)

\* A field ListFields() reports: a singular message that is set, a scalar
\* that is not its default, a repeated field that is not empty.
IsSet(message, fd) ==
    /\ fd \in DOMAIN message
    /\ fd \in SingularMessageFields \/ message[fd] # DefaultValue(fd)

\* message.ListFields(): the set fields only, in field-number order.
ListFields(message) == SelectSeq(FieldOrder, LAMBDA fd : IsSet(message, fd))

HighEntropyType ==
    {"HIGH_ENTROPY_NONE", "HIGH_ENTROPY_UNCLASSIFIED", "HIGH_ENTROPY_DIRECT"}

-----------------------------------------------------------------------------
(* CanonicalizeSnapshot                                                    *)

\* message.name raises AttributeError on a message type with no name field.
HasName(message) == "name" \in DOMAIN message

NameOrSelf(message) == message.name

\* The two `continue`s at the head of the loop body: the field is not
\* repeated, or it is the arguments field.
SkipsField(fd) == fd \notin RepeatedFields \/ fd = "arguments"

\* The key list.sort computes for every element of v: NameOrSelf for
\* messages (key=NameOrSelf), the element itself for scalars (v.sort()).
SortKeys(fd, v) ==
    [i \in 1..Len(v) |->
        IF fd \in RepeatedMessageFields THEN NameOrSelf(v[i]) ELSE v[i]]

RECURSIVE Canonicalize(_), CanonicalizeFields(_, _), CanonicalizeItems(_, _)

\* A variant that does not descend into the items.
CanonicalizeItemsSkipped(v, i) == [val |-> v, ok |-> TRUE]

\* for item in v: if isinstance(item, Message): Canonicalize(item)
\* from index i on.  Result: [val, ok]; ok = FALSE when a call raised, val
\* then holding what had been done in place before the exception.
CanonicalizeItems(v, i) ==
    IF i > Len(v) THEN [val |-> v, ok |-> TRUE]
    ELSE LET r == Canonicalize(v[i])
             w == [v EXCEPT ![i] = r.msg]
         IN  IF r.ok THEN CanonicalizeItems(w, i + 1)
             ELSE [val |-> w, ok |-> FALSE]

\* The rest of the loop body, for a repeated field that is not skipped:
\* recurse into the items, then sort a non-empty list.  Result: [msg, ok].
SortField(message, fd) ==
    LET items == IF fd \in RepeatedMessageFields
                 THEN CanonicalizeItems(message[fd], 1)
                 ELSE [val |-> message[fd], ok |-> TRUE]
        v == items.val
        walked == [message EXCEPT ![fd] = v]
    IN  IF ~items.ok THEN [msg |-> walked, ok |-> FALSE]
        ELSE IF Len(v) = 0 THEN [msg |-> walked, ok |-> TRUE]
        ELSE IF fd \in RepeatedMessageFields
                /\ \E i \in 1..Len(v) : ~HasName(v[i])
             THEN \* NameOrSelf raises; the list is left as it was.
                  [msg |-> walked, ok |-> FALSE]
        ELSE [msg |-> [message EXCEPT ![fd] = StableSort(v, SortKeys(fd, v))],
              ok |-> TRUE]

\* A variant that also sorts the arguments field, by type string.
CanonicalizeFieldSortingArguments(message, fd) ==
    IF fd \notin RepeatedFields THEN [msg |-> message, ok |-> TRUE]
    ELSE IF fd = "arguments"
    THEN [msg |-> [message EXCEPT ![fd] =
                      StableSort(@, [i \in 1..Len(@) |-> @[i].idl_type_string])],
          ok |-> TRUE]
    ELSE SortField(message, fd)

\* The body of the loop over ListFields() for one field.  Result: [msg, ok].
CanonicalizeField(message, fd) ==
    IF SkipsField(fd) THEN [msg |-> message, ok |-> TRUE]
    ELSE SortField(message, fd)

\* The loop over the fields fds still to visit.
CanonicalizeFields(message, fds) ==
    IF Len(fds) = 0 THEN [msg |-> message, ok |-> TRUE]
    ELSE LET r == CanonicalizeField(message, Head(fds))
         IN  IF r.ok THEN CanonicalizeFields(r.msg, Tail(fds))
             ELSE r

Canonicalize(message) == CanonicalizeFields(message, ListFields(message))

CanonicalizeSnapshot(s) == Canonicalize(s)

-----------------------------------------------------------------------------
(* ProtobufToCanonicalList                                                 *)

\* d[k] = v on a dict.
Put(d, k, v) == (k :> v) @@ d

\* d.get(k, '')
Get(d, k) == IF k \in DOMAIN d THEN d[k] ELSE <<>>

\* A variant that writes 'False' for an entity that needs no secure context.
GetExtendedAttributesWritingFalse(exts, d) ==
    LET d1 == Put(d, "secure_context",
                  IF exts.secure_context THEN "True" ELSE "False")
        d2 == IF exts.high_entropy = "HIGH_ENTROPY_UNCLASSIFIED"
              THEN Put(d1, "high_entropy", "(True)")
              ELSE IF exts.high_entropy = "HIGH_ENTROPY_DIRECT"
              THEN Put(d1, "high_entropy", "Direct")
              ELSE d1
    IN  IF exts.use_counter # <<>>
        THEN Put(d2, "use_counter", exts.use_counter) ELSE d2

GetExtendedAttributes(exts, d) ==
    LET d1 == IF exts.secure_context THEN Put(d, "secure_context", "True")
              ELSE d
        d2 == IF exts.high_entropy = "HIGH_ENTROPY_UNCLASSIFIED"
              THEN Put(d1, "high_entropy", "(True)")
              ELSE IF exts.high_entropy = "HIGH_ENTROPY_DIRECT"
              THEN Put(d1, "high_entropy", "Direct")
              ELSE d1
        d3 == IF exts.use_counter # <<>>
              THEN Put(d2, "use_counter", exts.use_counter) ELSE d2
    IN  IF exts.secure_context THEN Put(d3, "secure_context", "True") ELSE d3

GetIdlType(idl_type, d) == Put(d, "idl_type", idl_type.idl_type_string)

GetSourceLocation(source_location, d) ==
    LET d1 == IF source_location.filename # <<>>
              THEN Put(d, "source_file", source_location.filename) ELSE d
    IN  IF source_location.line # 0 /\ source_location.line > 0
        THEN Put(d1, "source_line", DecStr(source_location.line)) ELSE d1

InterfaceRow(interface) ==
    GetSourceLocation(Sub(interface, "source_location"),
        GetExtendedAttributes(Sub(interface, "extended_attributes"),
            [interface |-> interface.name, entity_type |-> "interface"]))

AttributeRow(interface, attr) ==
    GetSourceLocation(Sub(attr, "source_location"),
        GetIdlType(Sub(attr, "idl_type"),
            GetExtendedAttributes(Sub(attr, "extended_attributes"),
                [interface |-> interface.name, name |-> attr.name,
                 entity_type |-> "attribute"])))

\* '(' + ','.join([t.idl_type_string for t in op.arguments]) + ')'
ArgumentsString(arguments) ==
    <<40>> \o Join(<<44>>, [i \in 1..Len(arguments) |->
                               arguments[i].idl_type_string]) \o <<41>>

OperationRow(interface, op) ==
    Put(GetSourceLocation(Sub(op, "source_location"),
            GetIdlType(Sub(op, "return_type"),
                GetExtendedAttributes(Sub(op, "extended_attributes"),
                    [interface |-> interface.name, name |-> op.name,
                     entity_type |-> "operation"]))),
        "arguments", ArgumentsString(op.arguments))

ConstantRow(interface, c) ==
    GetSourceLocation(Sub(c, "source_location"),
        GetIdlType(Sub(c, "idl_type"),
            [interface |-> interface.name, name |-> c.name,
             entity_type |-> "constant"]))

\* A variant of the walk that leaves the constants out.
InterfaceRowsWithoutConstants(interface) ==
    <<InterfaceRow(interface)>>
    \o [i \in 1..Len(interface.attributes) |->
           AttributeRow(interface, interface.attributes[i])]
    \o [i \in 1..Len(interface.operations) |->
           OperationRow(interface, interface.operations[i])]

\* The rows one iteration of the loop over snapshot.interfaces appends.
InterfaceRows(interface) ==
    <<InterfaceRow(interface)>>
    \o [i \in 1..Len(interface.attributes) |->
           AttributeRow(interface, interface.attributes[i])]
    \o [i \in 1..Len(interface.operations) |->
           OperationRow(interface, interface.operations[i])]
    \o [i \in 1..Len(interface.constants) |->
           ConstantRow(interface, interface.constants[i])]

RECURSIVE WalkInterfaces(_)
\* The list l after the loop over the given interfaces.
WalkInterfaces(interfaces) ==
    IF Len(interfaces) = 0 THEN <<>>
    ELSE InterfaceRows(Head(interfaces)) \o WalkInterfaces(Tail(interfaces))

\* A variant of the key that leaves the member name out.
KeyFuncInterfaceOnly(d) == Get(d, "interface") \o <<58>>

\* d.get('interface', '') + ':' + d.get('name', '')
KeyFunc(d) == Get(d, "interface") \o <<58>> \o Get(d, "name")

ProtobufToCanonicalList(s) ==
    LET l == WalkInterfaces(s.interfaces)
    IN  StableSort(l, [i \in 1..Len(l) |-> KeyFunc(l[i])])

-----------------------------------------------------------------------------
(* The snapshots the tool is run on                                        *)

\* The message with its singular message field fd parsed from the text: a
\* sub-message the text does not write (value = the default instance) stays
\* unset.
Parsed(message, fd, value) ==
    IF value = DefaultMessage(fd) THEN message ELSE (fd :> value) @@ message

InterfaceLike(name, exts, loc) ==
    Parsed(Parsed([name |-> name, attributes |-> <<>>, operations |-> <<>>,
                   constants |-> <<>>],
                  "extended_attributes", exts),
           "source_location", loc)

Attribute(name, exts, loc) ==
    Parsed(Parsed([name |-> name, idl_type |-> IDLType(<<108>>)],
                  "extended_attributes", exts),
           "source_location", loc)

Operation(name, arguments, exts, loc) ==
    Parsed(Parsed([name |-> name, return_type |-> IDLType(<<118>>),
                   arguments |-> arguments],
                  "extended_attributes", exts),
           "source_location", loc)

Constant(name, exts, loc) ==
    Parsed(Parsed([name |-> name, idl_type |-> IDLType(<<108>>)],
                  "extended_attributes", exts),
           "source_location", loc)

\* The message with the sub-messages written empty in the text
\* (`extended_attributes {}`, `source_location {}`): set, and default.
WrittenEmpty(message) ==
    [extended_attributes |-> NoExts, source_location |-> NoLocation] @@ message

Enumeration(name, values) == [name |-> name, values |-> values]

\* Interface names "A", "A0", "B"; member names "" and "b".
InterfaceNames == {<<65>>, <<65, 48>>, <<66>>}
MemberNames == {<<>>, <<98>>}

\* Argument lists () and (s,l): the second is not in sorted order.
ArgumentLists == {<<>>, <<IDLType(<<115>>), IDLType(<<108>>)>>}

\* The entities of a text-format snapshot, in the order the text gives them.
Entity(kind, msg) == [kind |-> kind, msg |-> msg]

\* The plain entities: the three interfaces, attributes "" and "b",
\* operations ""(), b() and b(s,l), and the constant "b".
PlainEntities ==
    {Entity("interface", InterfaceLike(n, NoExts, NoLocation)) :
        n \in InterfaceNames}
    \cup {Entity("attribute", Attribute(n, NoExts, NoLocation)) :
        n \in MemberNames}
    \cup {Entity("operation", Operation(<<>>, <<>>, NoExts, NoLocation))}
    \cup {Entity("operation", Operation(<<98>>, a, NoExts, NoLocation)) :
        a \in ArgumentLists}
    \cup {Entity("constant", Constant(<<98>>, NoExts, NoLocation))}

\* Extended attributes and source locations of every shape the projection
\* rules tell apart: use counter "" or "u", file "" or "f", line 0, -1 or 12.
AllExts ==
    {ExtendedAttributes(s, h, u) :
        s \in BOOLEAN, h \in HighEntropyType, u \in {<<>>, <<117>>}}
AllLocations ==
    {NoLocation, SourceLocation(<<102>>, 12), SourceLocation(<<102>>, 0 - 1)}

AnnotatedInterfaces ==
    {Entity("interface", InterfaceLike(<<65>>, e, l)) :
        e \in AllExts, l \in AllLocations}

AnnotatedMembers ==
    {Entity("attribute", Attribute(<<98>>, e, l)) :
        e \in AllExts, l \in AllLocations}
    \cup {Entity("operation", Operation(<<98>>, <<IDLType(<<115>>)>>, e, l)) :
        e \in AllExts, l \in AllLocations}
    \cup {Entity("constant", Constant(<<98>>, e, l)) :
        e \in AllExts, l \in AllLocations}

\* The entity lists of a text: an interface first, every member after the
\* interface that owns it.
PlainTexts ==
    UNION {{t \in [1..n -> PlainEntities] : n > 0 => t[1].kind = "interface"} :
           n \in 0..MaxEntities}

AnnotatedTexts ==
    {<<i>> : i \in AnnotatedInterfaces}
    \cup {<<i, m>> : i \in AnnotatedInterfaces, m \in AnnotatedMembers}
    \cup {<<Entity(e.kind, WrittenEmpty(e.msg))>> :
             e \in {x \in PlainEntities : x.kind = "interface"}}
    \cup {<<i, Entity(e.kind, WrittenEmpty(e.msg))>> :
             i \in {x \in PlainEntities : x.kind = "interface"},
             e \in {x \in PlainEntities : x.kind # "interface"}}

RECURSIVE ParseEntities(_, _)
\* Parse(f.read(), snapshot) on the interfaces: each entity is appended, in
\* text order, to the repeated field of its kind.
ParseEntities(text, interfaces) ==
    IF Len(text) = 0 THEN interfaces
    ELSE LET e == Head(text)
             n == Len(interfaces)
             next ==
               IF e.kind = "interface" THEN Append(interfaces, e.msg)
               ELSE IF e.kind = "attribute"
               THEN [interfaces EXCEPT ![n].attributes = Append(@, e.msg)]
               ELSE IF e.kind = "operation"
               THEN [interfaces EXCEPT ![n].operations = Append(@, e.msg)]
               ELSE [interfaces EXCEPT ![n].constants = Append(@, e.msg)]
         IN  ParseEntities(Tail(text), next)

\* snapshot = Snapshot(); Parse(f.read(), snapshot), with the revision "r".
Snapshot(text) ==
    [chromium_revision |-> <<114>>, interfaces |-> ParseEntities(text, <<>>)]

\* A message type with two more repeated fields: enumerations (named
\* messages holding scalar values) and types (IDLType messages, which have
\* no name field).
ExtendedSnapshot(text, enumerations, types) ==
    [chromium_revision |-> <<114>>, interfaces |-> ParseEntities(text, <<>>),
     enumerations |-> enumerations, types |-> types]

EnumerationLists ==
    {<<>>,
     <<Enumeration(<<69>>, <<<<122>>, <<97>>>>)>>,
     <<Enumeration(<<70>>, <<>>), Enumeration(<<69>>, <<<<98>>, <<97>>, <<98>>>>)>>}

TypeLists ==
    {<<>>, <<IDLType(<<115>>)>>, <<IDLType(<<115>>), IDLType(<<108>>)>>}

ShortTexts == {t \in PlainTexts : Len(t) <= 2}

-----------------------------------------------------------------------------
(* The run                                                                 *)

Start(s) ==
    /\ input = s
    /\ snapshot = s
    /\ rows = <<>>
    /\ pc = "parsed"
    /\ ncanon = 0

Init == \E t \in PlainTexts \cup AnnotatedTexts : Start(Snapshot(t))

InitExtended ==
    \E t \in ShortTexts, e \in EnumerationLists, y \in TypeLists :
        Start(ExtendedSnapshot(t, e, y))

\* CanonicalizeSnapshot(snapshot).  An exception leaves the record as the
\* in-place sorts done so far made it and ends the run.
CanonicalizeSnapshotStep ==
    /\ pc \in {"parsed", "canonical"}
    /\ ncanon < MaxCanon
    /\ LET r == CanonicalizeSnapshot(snapshot)
       IN  /\ snapshot' = r.msg
           /\ pc' = IF r.ok THEN "canonical" ELSE "raised"
           /\ ncanon' = IF r.ok THEN ncanon + 1 ELSE ncanon
    /\ UNCHANGED <<input, rows>>

\* WriteSnapshotAsCsv(snapshot, target_file): the rows handed to the writer.
WriteSnapshotAsCsv ==
    /\ pc \in {"parsed", "canonical"}
    /\ rows' = ProtobufToCanonicalList(snapshot)
    /\ pc' = "written"
    /\ UNCHANGED <<input, snapshot, ncanon>>

Next == CanonicalizeSnapshotStep \/ WriteSnapshotAsCsv

Spec == Init /\ [][Next]_vars

SpecExtended == InitExtended /\ [][Next]_vars

-----------------------------------------------------------------------------
(* Vocabulary of the properties                                            *)

Range(f) == {f[i] : i \in DOMAIN f}

\* How many positions of the sequence q hold x.
Count(q, x) == Cardinality({i \in 1..Len(q) : q[i] = x})

\* q and r hold the same elements the same number of times.
SameElements(q, r) ==
    /\ Len(q) = Len(r)
    /\ \A x \in Range(q) \cup Range(r) : Count(q, x) = Count(r, x)

\* The names of q are in non-decreasing order.
SortedByName(q) ==
    \A i, j \in 1..Len(q) : i < j => StrLeq(q[i].name, q[j].name)

MemberFields == {"attributes", "operations", "constants"}

\* Interfaces that differ at most in the order of their members.
SameInterface(a, b) ==
    /\ [f \in DOMAIN a \ MemberFields |-> a[f]]
         = [f \in DOMAIN b \ MemberFields |-> b[f]]
    /\ \A f \in MemberFields : SameElements(a[f], b[f])

\* q and r hold the same interfaces, up to member order, equally often.
SameInterfaces(q, r) ==
    /\ Len(q) = Len(r)
    /\ \A i \in 1..Len(q) :
          Cardinality({j \in 1..Len(q) : SameInterface(q[j], q[i])})
            = Cardinality({j \in 1..Len(r) : SameInterface(r[j], q[i])})

\* Every operation of the snapshot s as <<interface name, name, arguments>>,
\* tagged with its position.
OperationsAt(s) ==
    UNION {{<<i, j>> : j \in 1..Len(s.interfaces[i].operations)} :
           i \in 1..Len(s.interfaces)}

Signature(s, at) ==
    LET interface == s.interfaces[at[1]]
        op == interface.operations[at[2]]
    IN  <<interface.name, op.name, op.arguments>>

Signatures(s) == {Signature(s, at) : at \in OperationsAt(s)}

CountSignature(s, sig) ==
    Cardinality({at \in OperationsAt(s) : Signature(s, at) = sig})

RECURSIVE OverloadsOf(_, _, _)
\* The argument lists of the operations called name on the interfaces
\* called owner, in the order a walk of the interfaces meets them.
OverloadsOf(interfaces, owner, name) ==
    IF Len(interfaces) = 0 THEN <<>>
    ELSE LET here == IF Head(interfaces).name = owner
                     THEN SelectSeq(Head(interfaces).operations,
                                    LAMBDA op : op.name = name)
                     ELSE <<>>
         IN  [i \in 1..Len(here) |-> here[i].arguments]
             \o OverloadsOf(Tail(interfaces), owner, name)

\* The arguments column of the operation rows of owner called name.
OverloadRows(owner, name) ==
    LET sel == SelectSeq(rows, LAMBDA d : /\ d.entity_type = "operation"
                                          /\ d.interface = owner
                                          /\ d.name = name)
    IN  [i \in 1..Len(sel) |-> sel[i].arguments]

UniqueInterfaceNames(s) ==
    \A i, j \in 1..Len(s.interfaces) :
        s.interfaces[i].name = s.interfaces[j].name => i = j

\* The permutations of 1..n.
PermutationsOf(n) ==
    {p \in [1..n -> 1..n] : \A i, j \in 1..n : p[i] = p[j] => i = j}

Reordered(q) == {[i \in 1..Len(q) |-> q[p[i]]] : p \in PermutationsOf(Len(q))}

\* The interface with its members in any order.
ReorderedMembers(interface) ==
    {[interface EXCEPT !.attributes = a, !.operations = o, !.constants = c] :
        a \in Reordered(interface.attributes),
        o \in Reordered(interface.operations),
        c \in Reordered(interface.constants)}

RECURSIVE ReorderedWithin(_)
\* The interfaces in the given order, each with its members in any order.
ReorderedWithin(interfaces) ==
    IF Len(interfaces) = 0 THEN {<<>>}
    ELSE {<<h>> \o t : h \in ReorderedMembers(Head(interfaces)),
                       t \in ReorderedWithin(Tail(interfaces))}

\* Every snapshot that differs from s only in the order of the elements of
\* repeated fields other than arguments.
Reorderings(s) ==
    {[s EXCEPT !.interfaces = r] :
        r \in UNION {Reordered(w) : w \in ReorderedWithin(s.interfaces)}}

\* In every repeated field of s other than arguments, two elements with the
\* same name are the same record.
EqualNamesAreEqualRecords(s) ==
    LET Tied(q) == \A i, j \in 1..Len(q) : q[i].name = q[j].name => q[i] = q[j]
    IN  /\ Tied(s.interfaces)
        /\ \A i \in 1..Len(s.interfaces) :
              \A f \in MemberFields : Tied(s.interfaces[i][f])

-----------------------------------------------------------------------------
(* Properties                                                              *)

\* C1: canonicalization is idempotent: applying CanonicalizeSnapshot to a
\* snapshot that has been canonicalized leaves every field of the record,
\* at every depth, as the first application left it.
C1_Idempotent ==
    [][(ncanon >= 1 /\ ncanon' = ncanon + 1) => snapshot' = snapshot]_vars

\* Canonicalization ran twice, and the first run did reorder the record.
C1_Witness == ncanon = 2 /\ snapshot # input

\* C2: CanonicalizeSnapshot never changes an operation's arguments: however
\* often it ran and wherever the operation moved, the snapshot holds exactly
\* the operations <<interface, name, arguments>> the input held.
C2_ArgumentsUnchanged ==
    \A sig \in Signatures(input) \cup Signatures(snapshot) :
        CountSignature(snapshot, sig) = CountSignature(input, sig)

\* Canonicalization ran twice and moved an operation that has two arguments
\* which are not in sorted order.
C2_Witness ==
    /\ ncanon = 2
    /\ \E i \in 1..Len(input.interfaces) :
          /\ i <= Len(snapshot.interfaces)
          /\ LET before == input.interfaces[i].operations
                 after == snapshot.interfaces[i].operations
             IN  \E j \in 1..Len(before) :
                    /\ Len(before[j].arguments) = 2
                    /\ j <= Len(after)
                    /\ after[j] # before[j]

\* The pair (interface, name) of row d is at most that of row e.
PairLeq(d, e) ==
    \/ StrLess(d.interface, e.interface)
    \/ /\ d.interface = e.interface
       /\ StrLeq(Get(d, "name"), Get(e, "name"))

\* C3 as stated: the rows are sorted by the pair (interface, name), an
\* interface row taking the empty name.
C3_PairOrder ==
    pc = "written" =>
        \A i, j \in 1..Len(rows) : i < j => PairLeq(rows[i], rows[j])

\* No interface name of the rows holds ':' or a character that sorts
\* before it.
NamesSortAfterColon ==
    \A i \in 1..Len(rows) :
        \A k \in 1..Len(rows[i].interface) : rows[i].interface[k] > 58

\* C3, amended: the rows are sorted by the one string interface + ':' +
\* name; that is the pair order when no interface name holds ':' or a
\* character that sorts before it.
C3_KeyOrder ==
    pc = "written" =>
        /\ \A i, j \in 1..Len(rows) :
              i < j => StrLeq(rows[i].interface \o <<58>> \o Get(rows[i], "name"),
                              rows[j].interface \o <<58>> \o Get(rows[j], "name"))
        /\ NamesSortAfterColon =>
              \A i, j \in 1..Len(rows) : i < j => PairLeq(rows[i], rows[j])

\* The final sort moved rows, and the key order is not the pair order.
C3_Witness ==
    /\ pc = "written"
    /\ rows # WalkInterfaces(snapshot.interfaces)
    /\ \E i, j \in 1..Len(rows) : i < j /\ ~PairLeq(rows[i], rows[j])

\* C4: when interface names are unique, the interface row of an interface
\* precedes every member row of that interface, members with an empty name
\* included.
C4_InterfaceRowFirst ==
    (pc = "written" /\ UniqueInterfaceNames(snapshot)) =>
        \A i, j \in 1..Len(rows) :
            (/\ rows[i].entity_type = "interface"
             /\ rows[j].entity_type # "interface"
             /\ rows[j].interface = rows[i].interface) => i < j

\* Rows of a snapshot that was not canonicalized, with unique interface
\* names, a member with an empty name, and rows moved by the final sort.
C4_Witness ==
    /\ pc = "written"
    /\ ncanon = 0
    /\ UniqueInterfaceNames(snapshot)
    /\ Len(snapshot.interfaces) >= 2
    /\ rows # WalkInterfaces(snapshot.interfaces)
    /\ \E j \in 1..Len(rows) :
          rows[j].entity_type # "interface" /\ rows[j].name = <<>>

\* C5 as stated, on snapshots whose interface names are unique: every
\* snapshot that differs from the input only in the order of siblings
\* canonicalizes to the same record and flattens, once canonicalized, to the
\* same rows.
C5_OrderIndependent ==
    /\ (pc = "canonical" /\ ncanon = 1 /\ UniqueInterfaceNames(input)) =>
          \A other \in Reorderings(input) :
              CanonicalizeSnapshot(other).msg = snapshot
    /\ (pc = "written" /\ ncanon = 1 /\ UniqueInterfaceNames(input)) =>
          \A other \in Reorderings(input) :
              ProtobufToCanonicalList(CanonicalizeSnapshot(other).msg) = rows

\* C5, amended: the same, for snapshots in which two elements of one
\* repeated field that have the same name are the same record once
\* canonicalized.
C5_OrderIndependentUpToTies ==
    /\ (pc = "canonical" /\ ncanon = 1 /\ EqualNamesAreEqualRecords(snapshot)) =>
          \A other \in Reorderings(input) :
              CanonicalizeSnapshot(other).msg = snapshot
    /\ (pc = "written" /\ ncanon = 1 /\ EqualNamesAreEqualRecords(snapshot)) =>
          \A other \in Reorderings(input) :
              ProtobufToCanonicalList(CanonicalizeSnapshot(other).msg) = rows

\* Rows of a canonicalized snapshot whose input has a reordering that is
\* another snapshot, at the interface level and at the member level.
C5_Witness ==
    /\ pc = "written"
    /\ ncanon = 1
    /\ EqualNamesAreEqualRecords(snapshot)
    /\ Len(input.interfaces) >= 2
    /\ input.interfaces # snapshot.interfaces
    /\ \E i \in 1..Len(input.interfaces) :
          Cardinality(ReorderedMembers(input.interfaces[i])) > 1

\* C6: operations of one interface that have the same name keep the order
\* the input gave them, in the canonicalized snapshot and in the rows
\* flattened from it.
C6_StableTieBreak ==
    ncanon >= 1 =>
        \A sig \in Signatures(input) :
            /\ OverloadsOf(snapshot.interfaces, sig[1], sig[2])
                 = OverloadsOf(input.interfaces, sig[1], sig[2])
            /\ pc = "written" =>
                  OverloadRows(sig[1], sig[2])
                    = [i \in 1..Len(OverloadsOf(input.interfaces, sig[1], sig[2])) |->
                         ArgumentsString(
                             OverloadsOf(input.interfaces, sig[1], sig[2])[i])]

\* Rows of a canonicalized snapshot in which two operations of an interface
\* share a name and differ in their arguments, and whose operations the
\* canonicalizer reordered.
C6_Witness ==
    /\ pc = "written"
    /\ ncanon >= 1
    /\ \E i \in 1..Len(input.interfaces) :
          LET ops == input.interfaces[i].operations
          IN  /\ \E j, k \in 1..Len(ops) :
                    /\ j < k
                    /\ ops[j].name = ops[k].name
                    /\ ops[j].arguments # ops[k].arguments
              /\ ~SortedByName(ops)

\* C7: after CanonicalizeSnapshot the interfaces, and the attributes,
\* operations and constants of every interface, are in non-decreasing order
\* of name, and each holds exactly the elements the input held.
C7_SortedPermutation ==
    ncanon >= 1 =>
        /\ SortedByName(snapshot.interfaces)
        /\ \A i \in 1..Len(snapshot.interfaces) :
              \A f \in MemberFields : SortedByName(snapshot.interfaces[i][f])
        /\ SameInterfaces(snapshot.interfaces, input.interfaces)
        /\ SameInterfaces(input.interfaces, snapshot.interfaces)

\* A canonicalized snapshot whose input had its interfaces and the members
\* of an interface out of order.
C7_Witness ==
    /\ ncanon >= 1
    /\ ~SortedByName(input.interfaces)
    /\ \E i \in 1..Len(input.interfaces) :
          \E f \in MemberFields : ~SortedByName(input.interfaces[i][f])

\* The three extended-attribute columns of row d are those of exts.
ProjectsExts(d, exts) ==
    /\ ("secure_context" \in DOMAIN d) <=> exts.secure_context
    /\ "secure_context" \in DOMAIN d => d.secure_context = "True"
    /\ ("high_entropy" \in DOMAIN d)
          <=> exts.high_entropy # "HIGH_ENTROPY_NONE"
    /\ exts.high_entropy = "HIGH_ENTROPY_UNCLASSIFIED" => d.high_entropy = "(True)"
    /\ exts.high_entropy = "HIGH_ENTROPY_DIRECT" => d.high_entropy = "Direct"
    /\ ("use_counter" \in DOMAIN d) <=> exts.use_counter # <<>>
    /\ "use_counter" \in DOMAIN d => d.use_counter = exts.use_counter

\* The extended attributes of the entities of s that row d can stand for.
ExtsOfRow(s, d) ==
    UNION {IF s.interfaces[i].name # d.interface THEN {}
           ELSE IF d.entity_type = "interface"
           THEN {Sub(s.interfaces[i], "extended_attributes")}
           ELSE LET members ==
                      IF d.entity_type = "attribute"
                      THEN s.interfaces[i].attributes
                      ELSE IF d.entity_type = "operation"
                      THEN s.interfaces[i].operations
                      ELSE s.interfaces[i].constants
                IN  {Sub(members[j], "extended_attributes") :
                        j \in {k \in 1..Len(members) : members[k].name = d.name}} :
           i \in 1..Len(s.interfaces)}

\* C8: an interface, attribute or operation row carries secure_context
\* 'True' exactly when the flag is set, high_entropy '(True)' for
\* unclassified, 'Direct' for direct and nothing for none, and use_counter
\* exactly when the name is not empty; a constant row carries none of the
\* three, whatever the constant holds.
C8_ExtendedAttributeColumns ==
    pc = "written" =>
        \A i \in 1..Len(rows) :
            IF rows[i].entity_type = "constant"
            THEN DOMAIN rows[i]
                   \cap {"secure_context", "high_entropy", "use_counter"} = {}
            ELSE \E exts \in ExtsOfRow(snapshot, rows[i]) :
                    ProjectsExts(rows[i], exts)

\* Rows that hold a constant whose record has every extended attribute set,
\* beside an interface row that carries secure_context and high_entropy but
\* no use_counter.
C8_Witness ==
    /\ pc = "written"
    /\ \E i, k \in 1..Len(rows) :
          /\ rows[i].entity_type = "constant"
          /\ \E exts \in ExtsOfRow(snapshot, rows[i]) :
                /\ exts.secure_context
                /\ exts.high_entropy = "HIGH_ENTROPY_DIRECT"
                /\ exts.use_counter # <<>>
          /\ rows[k].entity_type = "interface"
          /\ "secure_context" \in DOMAIN rows[k]
          /\ "high_entropy" \in DOMAIN rows[k]
          /\ "use_counter" \notin DOMAIN rows[k]

\* The entities of s as <<kind, interface name, member name>>, one per
\* position.
EntitiesAt(s) ==
    UNION {{<<i, "interface", 0>>}
           \cup {<<i, "attribute", j>> : j \in 1..Len(s.interfaces[i].attributes)}
           \cup {<<i, "operation", j>> : j \in 1..Len(s.interfaces[i].operations)}
           \cup {<<i, "constant", j>> : j \in 1..Len(s.interfaces[i].constants)} :
           i \in 1..Len(s.interfaces)}

EntityAt(s, at) ==
    LET interface == s.interfaces[at[1]]
    IN  IF at[2] = "interface" THEN <<"interface", interface.name, <<>>>>
        ELSE IF at[2] = "attribute"
        THEN <<"attribute", interface.name, interface.attributes[at[3]].name>>
        ELSE IF at[2] = "operation"
        THEN <<"operation", interface.name, interface.operations[at[3]].name>>
        ELSE <<"constant", interface.name, interface.constants[at[3]].name>>

RowEntity(d) == <<d.entity_type, d.interface, Get(d, "name")>>

\* C9: the flattener yields one row per entity: as many rows as there are
\* interfaces, attributes, operations and constants, each kind, owner and
\* name as often among the rows as among the entities, an interface row
\* having no name; and flattening leaves the snapshot as it was.
C9_OneRowPerEntity ==
    /\ [](pc = "written" =>
            /\ Len(rows) = Cardinality(EntitiesAt(snapshot))
            /\ \A i \in 1..Len(rows) :
                  ("name" \in DOMAIN rows[i])
                     <=> rows[i].entity_type # "interface"
            /\ \A e \in {EntityAt(snapshot, at) : at \in EntitiesAt(snapshot)}
                        \cup {RowEntity(rows[i]) : i \in 1..Len(rows)} :
                  Cardinality({i \in 1..Len(rows) : RowEntity(rows[i]) = e})
                    = Cardinality({at \in EntitiesAt(snapshot) :
                                      EntityAt(snapshot, at) = e}))
    /\ [][pc' = "written" => snapshot' = snapshot]_vars

\* Rows of a snapshot with two interfaces, one with no member and one with
\* members of two kinds.
C9_Witness ==
    /\ pc = "written"
    /\ Len(rows) = MaxEntities
    /\ \E i, j \in 1..Len(snapshot.interfaces) :
          /\ Cardinality({at \in EntitiesAt(snapshot) : at[1] = i}) = 1
          /\ Len(snapshot.interfaces[j].operations) = 1
          /\ Len(snapshot.interfaces[j].constants) = 1

\* C10 as stated: CanonicalizeSnapshot completes without raising on every
\* well-typed record, and leaves a repeated field of messages that have no
\* name (types) in the order of the messages' values.
C10_Total ==
    /\ pc # "raised"
    /\ ncanon >= 1 =>
          \A i, j \in 1..Len(snapshot.types) :
              i < j => StrLeq(snapshot.types[i].idl_type_string,
                              snapshot.types[j].idl_type_string)

====
